---- MODULE Spec2Model ----
(***************************************************************************)
(* Model of the LLM walkthrough component (src/unnamed/part_000): the      *)
(* simulation pipeline (tokenizeText, generateEmbeddings,                  *)
(* generateAttentionWeights, generateSimpleOutput) and the stage           *)
(* controller built from React state, two effects and six event handlers.  *)
(*                                                                         *)
(* Framework semantics the model relies on (React 18, createRoot):         *)
(*  - the setState calls of one handler are batched into one render;       *)
(*  - an effect runs after a commit iff one of its dependencies differs    *)
(*    from the previous commit; cleanups of the effects that re-run are    *)
(*    executed first, then the effect bodies in declaration order;         *)
(*  - effect bodies read the values captured by the committed render;      *)
(*  - effects of an update made in a discrete event (click, change) are    *)
(*    flushed in the same task, so no timer callback runs between a        *)
(*    handler and the effects of the render it caused.                     *)
(* Text is a TLA+ string; a character is a string of length 1.             *)
(***************************************************************************)
EXTENDS Integers, Sequences, FiniteSets, TLC

(***************************************************************************)
(* Characters                                                              *)
(***************************************************************************)

UpperCase == "ABCDEFGHIJKLMNOPQRSTUVWXYZ"
LowerCase == "abcdefghijklmnopqrstuvwxyz"
Digits == "0123456789"

CharAt(s, i) == SubSeq(s, i, i)

\* the position of character c in the table, 0 when it is not there
IndexIn(table, c) ==
  LET hits == {k \in 1..Len(table) : CharAt(table, k) = c}
  IN  IF hits = {} THEN 0 ELSE CHOOSE k \in hits : TRUE

CharsOf(table) == {CharAt(table, k) : k \in 1..Len(table)}

\* char.charCodeAt(0) for letters and digits (the characters a token of the
\* modelled inputs can hold): A is 65, a is 97, 0 is 48
CharCodes ==
  [c \in CharsOf(LowerCase) \cup CharsOf(UpperCase) \cup CharsOf(Digits) |->
     IF IndexIn(LowerCase, c) > 0 THEN 96 + IndexIn(LowerCase, c)
     ELSE IF IndexIn(UpperCase, c) > 0 THEN 64 + IndexIn(UpperCase, c)
     ELSE 47 + IndexIn(Digits, c)]

charCodeAt(c) == IF c \in DOMAIN CharCodes THEN CharCodes[c] ELSE 0

\* one character of String.prototype.toLowerCase: A..Z map to a..z
LowerOf == [c \in CharsOf(UpperCase) |-> CharAt(LowerCase, IndexIn(UpperCase, c))]

toLowerChar(c) == IF c \in DOMAIN LowerOf THEN LowerOf[c] ELSE c

RECURSIVE toLowerCase(_)
toLowerCase(s) ==
  IF Len(s) = 0 THEN ""
  ELSE toLowerChar(CharAt(s, 1)) \o toLowerCase(SubSeq(s, 2, Len(s)))

\* text.includes(needle)
includes(text, needle) ==
  \E i \in 1..(Len(text) - Len(needle) + 1) :
     SubSeq(text, i, i + Len(needle) - 1) = needle

(***************************************************************************)
(* Tokenizer                                                               *)
(***************************************************************************)

\* the character class of the split pattern: whitespace and the eleven
\* punctuation characters listed in it
IsDelimiter(c) ==
  c \in {" ", "\t", "\n", "\r", ",", ".", "!", "?", ";", ":", "'", "\"", "(", ")", "-"}

\* String.prototype.split on one-or-more delimiters: the fragments between
\* the maximal delimiter runs, a leading or trailing run giving an empty
\* fragment. `cur` is the fragment being read, `inRun` says that the
\* previous character was a delimiter.
RECURSIVE SplitFrom(_, _, _, _)
SplitFrom(s, i, cur, inRun) ==
  IF i > Len(s) THEN <<cur>>
  ELSE LET c == CharAt(s, i)
       IN  IF IsDelimiter(c)
           THEN IF inRun THEN SplitFrom(s, i + 1, cur, TRUE)
                ELSE <<cur>> \o SplitFrom(s, i + 1, "", TRUE)
           ELSE SplitFrom(s, i + 1, cur \o c, FALSE)

split(s) == SplitFrom(s, 1, "", FALSE)

\* the split without the filter: empty fragments stay in the list
filterNothing(ws) == ws

\* Array.prototype.filter(word => word.length > 0)
RECURSIVE filterNonEmpty(_)
filterNonEmpty(ws) ==
  IF ws = <<>> THEN <<>>
  ELSE (IF Len(Head(ws)) > 0 THEN <<Head(ws)>> ELSE <<>>) \o filterNonEmpty(Tail(ws))

tokenizeText(text) == filterNonEmpty(split(toLowerCase(text)))

(***************************************************************************)
(* Embedding generator                                                     *)
(***************************************************************************)

\* token.split('').reduce((acc, char) => acc + char.charCodeAt(0), 0)
RECURSIVE tokenHash(_)
tokenHash(token) ==
  IF Len(token) = 0 THEN 0
  ELSE charCodeAt(CharAt(token, 1)) + tokenHash(SubSeq(token, 2, Len(token)))

\* Coordinate i (from 0) of the vector of a token with hash h is
\* round3(sin((h + 10 i) / 50) * cos(i / 3) * 2). The value is a function of
\* (h, i) alone; it is kept as that pair, the argument of the formula.
Coordinate(h, i) == [hash |-> h, index |-> i]

\* a vector of the initial dimension whatever the slider says
embeddingVectorFixedLength(token, dimension) ==
  [k \in 1..8 |-> Coordinate(tokenHash(token), k - 1)]

\* Array.from({ length: dimension }, (_, i) => ...)
embeddingVector(token, dimension) ==
  [k \in 1..dimension |-> Coordinate(tokenHash(token), k - 1)]

\* tokenList.map over a cache local to the call: a token already in the
\* cache gets the cached vector, a new one is computed and cached.
RECURSIVE EmbedFrom(_, _, _, _)
EmbedFrom(tokenList, k, dimension, embeddingCache) ==
  IF k > Len(tokenList) THEN <<>>
  ELSE LET token == tokenList[k]
       IN  IF token \in DOMAIN embeddingCache
           THEN <<[token |-> token, vector |-> embeddingCache[token]]>>
                \o EmbedFrom(tokenList, k + 1, dimension, embeddingCache)
           ELSE LET vector == embeddingVector(token, dimension)
                IN  <<[token |-> token, vector |-> vector]>>
                    \o EmbedFrom(tokenList, k + 1, dimension,
                                 [t \in (DOMAIN embeddingCache) \cup {token} |->
                                    IF t = token THEN vector ELSE embeddingCache[t]])

EmptyCache == [t \in {} |-> <<>>]

generateEmbeddings(tokenList, dimension) ==
  EmbedFrom(tokenList, 1, dimension, EmptyCache)

(***************************************************************************)
(* Random source                                                           *)
(*                                                                         *)
(* Math.random() is a value in [0, 1), kept in units of 1/RandomScale. The *)
(* values one effect run draws are read off a tape, in call order; a tape  *)
(* shorter than the calls made is read cyclically.                         *)
(***************************************************************************)

RandomScale == 10000

random(tape, pos) == tape[((pos - 1) % Len(tape)) + 1]

(***************************************************************************)
(* Attention weight generator                                              *)
(*                                                                         *)
(* A raw weight is kept in units of 1/100000 (Math.random() * 0.1 of a     *)
(* value in units of 1/10000), a rounded weight in thousandths.            *)
(***************************************************************************)

Abs(n) == IF n < 0 THEN -n ELSE n

\* parseFloat(weight.toFixed(3)) of a raw weight: thousandths, half up
toFixed3(w) == (w + 50) \div 100

\* parseFloat((w / sum).toFixed(3)) of a rounded weight w (thousandths) and
\* a raw row sum (1/100000): thousandths, half up
normalize(w, sum) == (2 * 100000 * w + sum) \div (2 * sum)

\* The weight of cell (i, j), indices from 1, reading the tape from pos:
\* the raw weight and the tape position after the cell.
cellWeight(tokenList, i, j, tape, pos) ==
  LET jitter == random(tape, pos)                \* Math.random() * 0.1
  IN  IF i = j
      THEN [weight |-> jitter + 70000, pos |-> pos + 1]
      ELSE IF Abs(i - j) <= 1
      THEN [weight |-> jitter + 20000, pos |-> pos + 1]
      ELSE IF tokenList[i] = tokenList[j] /\ Len(tokenList[i]) > 1
      THEN [weight |-> jitter + 30000, pos |-> pos + 1]
      ELSE IF 10 * random(tape, pos + 1) < RandomScale      \* Math.random() < 0.1
      THEN [weight |-> jitter + 2 * random(tape, pos + 2),  \* Math.random() * 0.2
            pos |-> pos + 3]
      ELSE [weight |-> jitter, pos |-> pos + 2]

\* The inner loop over j: the rounded weights pushed so far, their raw sum
\* and the tape position.
RECURSIVE rowFrom(_, _, _, _, _, _, _)
rowFrom(tokenList, i, j, tape, pos, row, sum) ==
  IF j > Len(tokenList) THEN [row |-> row, sum |-> sum, pos |-> pos]
  ELSE LET c == cellWeight(tokenList, i, j, tape, pos)
       IN  rowFrom(tokenList, i, j + 1, tape, c.pos,
                   Append(row, toFixed3(c.weight)), sum + c.weight)

\* The outer loop over i: the matrix and the tape position after it.
RECURSIVE weightsFrom(_, _, _, _, _)
weightsFrom(tokenList, i, tape, pos, weights) ==
  IF i > Len(tokenList) THEN [weights |-> weights, pos |-> pos]
  ELSE LET r == rowFrom(tokenList, i, 1, tape, pos, <<>>, 0)
       IN  weightsFrom(tokenList, i + 1, tape, r.pos,
                       Append(weights, [k \in 1..Len(r.row) |-> normalize(r.row[k], r.sum)]))

attentionRun(tokenList, tape, pos) == weightsFrom(tokenList, 1, tape, pos, <<>>)

generateAttentionWeights(tokenList, tape) == attentionRun(tokenList, tape, 1).weights

(***************************************************************************)
(* Output generator                                                        *)
(***************************************************************************)

StartTyping == "Start typing to generate output..."
HelloReply == "Hey there! How can I assist you today?"
QuestionReply == "I'm ready to answer your question!"
NameReply == "My name is LLM-Vis. What's yours?"
WeatherReply == "The weather is simulated to be sunny."
MoreContext == "Please provide more context."
TooShort == "Input is a bit short. Could you elaborate?"
LotToThink == " A lot to think about!"

\* `It's currently ${new Date().toLocaleTimeString()} here.`
TimeReply(now) == "It's currently " \o now \o " here."

randomPhrases ==
  << "What comes next?", "Thinking about that...", "A fascinating input!",
     "Let's see...", "Processing the tokens now." >>

\* the switch on lastToken; the default case draws Math.random() once
lexiconReply(lastToken, tape, pos) ==
  CASE lastToken = "fox" -> "jumps over the lazy dog."
    [] lastToken = "quick" -> "brown fox jumps."
    [] lastToken = "brown" -> "fox is fast."
    [] lastToken = "apple" -> "is a delicious fruit."
    [] lastToken = "cat" -> "sits quietly."
    [] lastToken = "dog" -> "barks loudly."
    [] lastToken = "computer" -> "is a powerful tool."
    [] lastToken = "data" -> "is the new oil."
    [] OTHER -> "... and then " \o lastToken \o " leads to: "
                \o randomPhrases[((random(tape, pos) * 5) \div RandomScale) + 1]

inLexicon(lastToken) ==
  lastToken \in {"fox", "quick", "brown", "apple", "cat", "dog", "computer", "data"}

\* the rule chain with the name rule tested before the hello rule
selectReplyNameFirst(input, currentTokens, tape, pos, now) ==
  LET lastToken == currentTokens[Len(currentTokens)]
      lower == toLowerCase(input)
  IN  IF includes(lower, "name") THEN [text |-> NameReply, pos |-> pos]
      ELSE IF includes(lower, "hello") THEN [text |-> HelloReply, pos |-> pos]
      ELSE IF includes(lower, "question") THEN [text |-> QuestionReply, pos |-> pos]
      ELSE IF includes(lower, "weather") THEN [text |-> WeatherReply, pos |-> pos]
      ELSE IF includes(lower, "time") THEN [text |-> TimeReply(now), pos |-> pos]
      ELSE IF Len(currentTokens) > 3
      THEN [text |-> lexiconReply(lastToken, tape, pos),
            pos |-> IF inLexicon(lastToken) THEN pos ELSE pos + 1]
      ELSE [text |-> MoreContext, pos |-> pos]

\* The rule chain of lines 89-122: the reply selected before post-processing
\* and the tape position after it.
selectReply(input, currentTokens, tape, pos, now) ==
  LET lastToken == currentTokens[Len(currentTokens)]
      lower == toLowerCase(input)
  IN  IF includes(lower, "hello") THEN [text |-> HelloReply, pos |-> pos]
      ELSE IF includes(lower, "question") THEN [text |-> QuestionReply, pos |-> pos]
      ELSE IF includes(lower, "name") THEN [text |-> NameReply, pos |-> pos]
      ELSE IF includes(lower, "weather") THEN [text |-> WeatherReply, pos |-> pos]
      ELSE IF includes(lower, "time") THEN [text |-> TimeReply(now), pos |-> pos]
      ELSE IF Len(currentTokens) > 3
      THEN [text |-> lexiconReply(lastToken, tape, pos),
            pos |-> IF inLexicon(lastToken) THEN pos ELSE pos + 1]
      ELSE [text |-> MoreContext, pos |-> pos]

\* a generator that answers from the embeddings it is handed: none, no reply
generateSimpleOutputReadsEmbeddings(input, currentTokens, currentEmbeddings, step, tape, pos, now) ==
  IF Len(currentTokens) = 0 \/ Len(currentEmbeddings) = 0 THEN StartTyping
  ELSE LET sel == selectReply(input, currentTokens, tape, pos, now)
       IN  IF Len(currentTokens) < 3 /\ step = 4 THEN TooShort
           ELSE IF Len(currentTokens) > 7 /\ 2 * random(tape, sel.pos) > RandomScale
           THEN sel.text \o LotToThink
           ELSE sel.text

\* the post-processing without the short-input branch
generateSimpleOutputNoOverride(input, currentTokens, currentEmbeddings, step, tape, pos, now) ==
  IF Len(currentTokens) = 0 THEN StartTyping
  ELSE LET sel == selectReply(input, currentTokens, tape, pos, now)
       IN  IF Len(currentTokens) > 7 /\ 2 * random(tape, sel.pos) > RandomScale
           THEN sel.text \o LotToThink
           ELSE sel.text

\* the short-input test made before the empty-list test
generateSimpleOutputShortFirst(input, currentTokens, currentEmbeddings, step, tape, pos, now) ==
  IF Len(currentTokens) < 3 /\ step = 4 THEN TooShort
  ELSE IF Len(currentTokens) = 0 THEN StartTyping
  ELSE LET sel == selectReply(input, currentTokens, tape, pos, now)
       IN  IF Len(currentTokens) > 7 /\ 2 * random(tape, sel.pos) > RandomScale
           THEN sel.text \o LotToThink
           ELSE sel.text

\* generateSimpleOutput as called from a render whose currentStep is `step`
\* (the function reads currentStep from the enclosing render);
\* currentEmbeddings is accepted and never read.
generateSimpleOutput(input, currentTokens, currentEmbeddings, step, tape, pos, now) ==
  IF Len(currentTokens) = 0 THEN StartTyping
  ELSE LET sel == selectReply(input, currentTokens, tape, pos, now)
       IN  IF Len(currentTokens) < 3 /\ step = 4 THEN TooShort
           ELSE IF Len(currentTokens) > 7 /\ 2 * random(tape, sel.pos) > RandomScale
           THEN sel.text \o LotToThink
           ELSE sel.text

(***************************************************************************)
(* Stage controller: state                                                 *)
(***************************************************************************)

VARIABLES
  currentStep,        \* useState(0)
  isPlaying,          \* useState(false)
  inputText,          \* useState("The quick brown fox")
  tokens,             \* useState([])
  embeddings,         \* useState([])
  attentionWeights,   \* useState([])
  output,             \* useState("")
  animationSpeed,     \* useState(2000)
  embeddingDimension, \* useState(8)
  timers,             \* the timeouts pending in the host: {[id, delay]}
  timer,              \* `timer` of the last run of the advance effect
  timerDeps,          \* dependencies of the advance effect at its last run
  recomputeDeps,      \* dependencies of the recompute effect at its last run
  phase,              \* "effects": a render is committed and its effects
                      \* have not run yet; "idle": nothing is left to do
  event               \* history: the last handler or callback that ran,
                      \* its argument, and currentStep, isPlaying and
                      \* whether a timeout was pending when it started

vars ==
  << currentStep, isPlaying, inputText, tokens, embeddings, attentionWeights,
     output, animationSpeed, embeddingDimension, timers, timer, timerDeps,
     recomputeDeps, phase, event >>

artifacts == <<tokens, embeddings, attentionWeights, output>>
hostTimers == <<timers, timer, timerDeps, recomputeDeps>>

DefaultText == "The quick brown fox"
DefaultSpeed == 2000
DefaultDimension == 8
StepsLength == 5          \* steps.length
NoTimer == 0              \* `let timer` left unassigned

(***************************************************************************)
(* Inputs                                                                  *)
(***************************************************************************)

\* texts the input field is set to, the first NumTexts of the pool
TextPool ==
  << "", "Hello", "What is your name?", "one two three four", "a cat", "?!",
     "so it is what it is all the time", "hello question name",
     "a b c d e f g fox" >>
NumTexts == 8
InputTexts == {TextPool[k] : k \in 1..NumTexts}

\* positions of the speed slider (min 500, step 100) and of the dimension
\* slider (min 4, step 1), counted from the minimum, and the initial values
MinSpeed == 500
SpeedStep == 100
NumSpeedSteps == 0
SpeedChoices == {MinSpeed + SpeedStep * k : k \in 0..NumSpeedSteps} \cup {DefaultSpeed}

MinDimension == 4
NumDimensionSteps == 0
DimensionChoices == {MinDimension + k : k \in 0..NumDimensionSteps} \cup {DefaultDimension}

\* the step buttons are rendered by steps.map, one per index
StepIndices == 0..(StepsLength - 1)
\* indices a caller other than the step buttons could pass
MalformedReach == 1
RawIndices == (0 - MalformedReach)..(StepsLength - 1 + MalformedReach)

\* outcomes of Math.random(), in units of 1/RandomScale, and the tapes
RandomTapes == {<<0>>, <<9999>>, <<999, 5001>>, <<5001, 0, 9999>>}

\* outcomes of new Date().toLocaleTimeString()
ClockTimes == {"9:41:00 AM", "11:59:59 PM"}

MaxTimers == 3

(***************************************************************************)
(* Rendering and effects                                                   *)
(***************************************************************************)

\* the history record of a handler or callback starting in the current state
Event(op, index, text) ==
  [ op |-> op, index |-> index, text |-> text,
    fromStep |-> currentStep, wasPlaying |-> isPlaying, pending |-> timers # {} ]

\* the advance effect without animationSpeed among its dependencies
afterRenderSpeedNotDep(step, playing, text, speed, dimension) ==
  IF \/ <<step, playing, StepsLength, timerDeps[4]>> # timerDeps
     \/ <<text, step, dimension>> # recomputeDeps
  THEN "effects" ELSE "idle"

\* The phase after a render of the given state: its effects are pending iff
\* a dependency array differs from the one of the effect's last run.
afterRender(step, playing, text, speed, dimension) ==
  IF \/ <<step, playing, StepsLength, speed>> # timerDeps
     \/ <<text, step, dimension>> # recomputeDeps
  THEN "effects" ELSE "idle"

\* a cleanup that leaves the timeout pending
clearTimeoutForgotten(pending, id) == pending

\* clearTimeout(id); clearTimeout(undefined) clears nothing
clearTimeout(pending, id) == {t \in pending : t.id # id}

\* The handle setTimeout returns: one it has not returned before. Only the
\* handles of the pending timeouts and the one the last effect run kept in
\* `timer` are still held anywhere, so the new handle is the least one that
\* differs from all of these.
freshId(pending, last) ==
  CHOOSE i \in 1..(Cardinality(pending) + 2) :
    /\ i # last /\ \A t \in pending : t.id # i
    /\ \A k \in 1..(i - 1) : k = last \/ \E t \in pending : t.id = k

\* the advance effect with its bound one stage long: armed at the last stage
advanceEffectArmsAtLast ==
  LET cleared == clearTimeout(timers, timer)
  IN  IF isPlaying /\ currentStep < StepsLength
      THEN [ timers |-> cleared \cup {[id |-> freshId(cleared, timer), delay |-> animationSpeed]},
             timer |-> freshId(cleared, timer), isPlaying |-> isPlaying ]
      ELSE IF currentStep = StepsLength - 1
      THEN [timers |-> cleared, timer |-> NoTimer, isPlaying |-> FALSE]
      ELSE [timers |-> cleared, timer |-> NoTimer, isPlaying |-> isPlaying]

\* the advance effect with its bound one stage short
advanceEffectStopsEarly ==
  LET cleared == clearTimeout(timers, timer)
  IN  IF isPlaying /\ currentStep < StepsLength - 2
      THEN [ timers |-> cleared \cup {[id |-> freshId(cleared, timer), delay |-> animationSpeed]},
             timer |-> freshId(cleared, timer), isPlaying |-> isPlaying ]
      ELSE IF currentStep = StepsLength - 1
      THEN [timers |-> cleared, timer |-> NoTimer, isPlaying |-> FALSE]
      ELSE [timers |-> cleared, timer |-> NoTimer, isPlaying |-> isPlaying]

\* the advance effect without its else-if branch: playing is never cleared
advanceEffectKeepsPlaying ==
  LET cleared == {t \in timers : t.id # timer}
  IN  IF isPlaying /\ currentStep < StepsLength - 1
      THEN [ timers |-> cleared \cup {[id |-> freshId(cleared, timer), delay |-> animationSpeed]},
             timer |-> freshId(cleared, timer), isPlaying |-> isPlaying ]
      ELSE [timers |-> cleared, timer |-> NoTimer, isPlaying |-> isPlaying]

\* The advance effect (lines 133-143) re-running: the cleanup of its last
\* run, then its body. Gives the pending timeouts, the new `timer` and the
\* value of isPlaying after the setIsPlaying call, if any.
advanceEffect ==
  LET cleared == clearTimeout(timers, timer)
  IN  IF isPlaying /\ currentStep < StepsLength - 1
      THEN [ timers |-> cleared \cup {[id |-> freshId(cleared, timer), delay |-> animationSpeed]},
             timer |-> freshId(cleared, timer), isPlaying |-> isPlaying ]
      ELSE IF currentStep = StepsLength - 1
      THEN [timers |-> cleared, timer |-> NoTimer, isPlaying |-> FALSE]
      ELSE [timers |-> cleared, timer |-> NoTimer, isPlaying |-> isPlaying]

\* the recompute effect without its else branches: an artifact of a stage
\* not reached keeps its last value
recomputeEffectKeepsStale(tape, now) ==
  LET tokenList == tokenizeText(inputText)
      att == attentionRun(tokenList, tape, 1)
  IN  [ tokens |-> tokenList,
        embeddings |-> IF currentStep >= 2
                       THEN generateEmbeddings(tokenList, embeddingDimension) ELSE embeddings,
        attentionWeights |-> IF currentStep >= 3 THEN att.weights ELSE attentionWeights,
        output |-> IF currentStep >= 4
                   THEN generateSimpleOutput(inputText, tokenList, embeddings,
                                             currentStep, tape, att.pos, now)
                   ELSE output ]

\* The recompute effect (lines 154-176): the four artifacts it sets. It reads
\* inputText, currentStep, embeddingDimension and embeddings of the render.
recomputeEffect(tape, now) ==
  LET tokenList == tokenizeText(inputText)
      att == attentionRun(tokenList, tape, 1)
  IN  [ tokens |-> tokenList,
        embeddings |-> IF currentStep >= 2
                       THEN generateEmbeddings(tokenList, embeddingDimension) ELSE <<>>,
        attentionWeights |-> IF currentStep >= 3 THEN att.weights ELSE <<>>,
        output |-> IF currentStep >= 4
                   THEN generateSimpleOutput(inputText, tokenList, embeddings,
                                             currentStep, tape, att.pos, now)
                   ELSE "" ]

\* The outcomes of Math.random() and of the clock that a run of the effects
\* can observe: the recompute effect draws random numbers only from stage 3
\* on and reads the clock only at stage 4.
drawnTapes ==
  IF <<inputText, currentStep, embeddingDimension>> # recomputeDeps /\ currentStep >= 3
  THEN RandomTapes ELSE {<<0>>}
readClocks ==
  IF <<inputText, currentStep, embeddingDimension>> # recomputeDeps /\ currentStep >= 4
  THEN ClockTimes ELSE {"9:41:00 AM"}

\* The effects of the committed render run (the scroll effect of lines
\* 145-152 sets no state and is left out), and the state they set is
\* rendered.
RunEffects ==
  /\ phase = "effects"
  /\ Cardinality(timers) <= MaxTimers
  /\ \E tape \in drawnTapes, now \in readClocks :
       LET runAdvance == <<currentStep, isPlaying, StepsLength, animationSpeed>> # timerDeps
           runRecompute == <<inputText, currentStep, embeddingDimension>> # recomputeDeps
           a == advanceEffect
           r == recomputeEffect(tape, now)
       IN  /\ timers' = IF runAdvance THEN a.timers ELSE timers
           /\ timer' = IF runAdvance THEN a.timer ELSE timer
           /\ isPlaying' = IF runAdvance THEN a.isPlaying ELSE isPlaying
           /\ timerDeps' = <<currentStep, isPlaying, StepsLength, animationSpeed>>
           /\ recomputeDeps' = <<inputText, currentStep, embeddingDimension>>
           /\ tokens' = IF runRecompute THEN r.tokens ELSE tokens
           /\ embeddings' = IF runRecompute THEN r.embeddings ELSE embeddings
           /\ attentionWeights' = IF runRecompute THEN r.attentionWeights ELSE attentionWeights
           /\ output' = IF runRecompute THEN r.output ELSE output
           /\ phase' = IF isPlaying' # isPlaying THEN "effects" ELSE "idle"
  /\ UNCHANGED <<currentStep, inputText, animationSpeed, embeddingDimension, event>>

(***************************************************************************)
(* Event handlers and the timer callback                                   *)
(***************************************************************************)

\* handlePlay that restarts from stage 0 whenever it starts playing
handlePlayRestarts ==
  /\ phase = "idle"
  /\ IF ~isPlaying
     THEN currentStep' = 0 /\ isPlaying' = TRUE
     ELSE currentStep' = currentStep /\ isPlaying' = ~isPlaying
  /\ phase' = afterRender(currentStep', isPlaying', inputText, animationSpeed, embeddingDimension)
  /\ event' = Event("play", 0, "")
  /\ UNCHANGED <<inputText, animationSpeed, embeddingDimension, artifacts, hostTimers>>

\* handlePlay without the replay case: a plain toggle
handlePlayToggleOnly ==
  /\ phase = "idle"
  /\ currentStep' = currentStep
  /\ isPlaying' = ~isPlaying
  /\ phase' = afterRender(currentStep', isPlaying', inputText, animationSpeed, embeddingDimension)
  /\ event' = Event("play", 0, "")
  /\ UNCHANGED <<inputText, animationSpeed, embeddingDimension, artifacts, hostTimers>>

\* lines 178-185
handlePlay ==
  /\ phase = "idle"
  /\ IF ~isPlaying /\ currentStep = StepsLength - 1
     THEN currentStep' = 0 /\ isPlaying' = TRUE
     ELSE currentStep' = currentStep /\ isPlaying' = ~isPlaying
  /\ phase' = afterRender(currentStep', isPlaying', inputText, animationSpeed, embeddingDimension)
  /\ event' = Event("play", 0, "")
  /\ UNCHANGED <<inputText, animationSpeed, embeddingDimension, artifacts, hostTimers>>

\* handleReset without setInputText: the entered text survives
handleResetKeepsText ==
  /\ phase = "idle"
  /\ currentStep' = 0
  /\ isPlaying' = FALSE
  /\ phase' = afterRender(0, FALSE, inputText, animationSpeed, embeddingDimension)
  /\ event' = Event("reset", 0, "")
  /\ UNCHANGED <<inputText, animationSpeed, embeddingDimension, artifacts, hostTimers>>

\* lines 187-191
handleReset ==
  /\ phase = "idle"
  /\ currentStep' = 0
  /\ isPlaying' = FALSE
  /\ inputText' = DefaultText
  /\ phase' = afterRender(0, FALSE, DefaultText, animationSpeed, embeddingDimension)
  /\ event' = Event("reset", 0, "")
  /\ UNCHANGED <<animationSpeed, embeddingDimension, artifacts, hostTimers>>

\* handleStepClick without setIsPlaying(false)
handleStepClickKeepsPlaying(stepIndex) ==
  /\ phase = "idle"
  /\ currentStep' = stepIndex
  /\ phase' = afterRender(stepIndex, isPlaying, inputText, animationSpeed, embeddingDimension)
  /\ event' = Event("seek", stepIndex, "")
  /\ UNCHANGED <<isPlaying, inputText, animationSpeed, embeddingDimension, artifacts, hostTimers>>

\* lines 193-196
handleStepClick(stepIndex) ==
  /\ phase = "idle"
  /\ currentStep' = stepIndex
  /\ isPlaying' = FALSE
  /\ phase' = afterRender(stepIndex, FALSE, inputText, animationSpeed, embeddingDimension)
  /\ event' = Event("seek", stepIndex, "")
  /\ UNCHANGED <<inputText, animationSpeed, embeddingDimension, artifacts, hostTimers>>

\* handleInputChange with setInputText alone
handleInputChangeKeepsStage(value) ==
  /\ phase = "idle"
  /\ inputText' = value
  /\ phase' = afterRender(currentStep, isPlaying, value, animationSpeed, embeddingDimension)
  /\ event' = Event("input", 0, value)
  /\ UNCHANGED <<currentStep, isPlaying, animationSpeed, embeddingDimension, artifacts, hostTimers>>

\* lines 198-202
handleInputChange(value) ==
  /\ phase = "idle"
  /\ inputText' = value
  /\ currentStep' = 0
  /\ isPlaying' = FALSE
  /\ phase' = afterRender(0, FALSE, value, animationSpeed, embeddingDimension)
  /\ event' = Event("input", 0, value)
  /\ UNCHANGED <<animationSpeed, embeddingDimension, artifacts, hostTimers>>

\* handleSpeedChange that also pauses the walkthrough
handleSpeedChangePauses(value) ==
  /\ phase = "idle"
  /\ animationSpeed' = value
  /\ isPlaying' = FALSE
  /\ phase' = afterRender(currentStep, FALSE, inputText, value, embeddingDimension)
  /\ event' = Event("speed", value, "")
  /\ UNCHANGED <<currentStep, inputText, embeddingDimension, artifacts, hostTimers>>

\* lines 204-206
handleSpeedChange(value) ==
  /\ phase = "idle"
  /\ animationSpeed' = value
  /\ phase' = afterRender(currentStep, isPlaying, inputText, value, embeddingDimension)
  /\ event' = Event("speed", value, "")
  /\ UNCHANGED <<currentStep, isPlaying, inputText, embeddingDimension, artifacts, hostTimers>>

\* lines 208-210
handleEmbeddingDimensionChange(value) ==
  /\ phase = "idle"
  /\ embeddingDimension' = value
  /\ phase' = afterRender(currentStep, isPlaying, inputText, animationSpeed, value)
  /\ event' = Event("dimension", value, "")
  /\ UNCHANGED <<currentStep, isPlaying, inputText, animationSpeed, artifacts, hostTimers>>

\* The timeout callback of lines 136-138 for the pending timeout t:
\* setCurrentStep(prevStep => prevStep + 1).
timeoutCallback(t) ==
  /\ phase = "idle"
  /\ t \in timers
  /\ timers' = timers \ {t}
  /\ currentStep' = currentStep + 1
  /\ phase' = afterRender(currentStep + 1, isPlaying, inputText, animationSpeed, embeddingDimension)
  /\ event' = Event("timeout", t.id, "")
  /\ UNCHANGED <<isPlaying, inputText, animationSpeed, embeddingDimension, artifacts,
                 timer, timerDeps, recomputeDeps>>

(***************************************************************************)
(* Specifications                                                          *)
(***************************************************************************)

\* The component as constructed: the useState initial values, rendered once,
\* the effects of the mount not yet run.
Init ==
  /\ currentStep = 0
  /\ isPlaying = FALSE
  /\ inputText = DefaultText
  /\ tokens = <<>>
  /\ embeddings = <<>>
  /\ attentionWeights = <<>>
  /\ output = ""
  /\ animationSpeed = DefaultSpeed
  /\ embeddingDimension = DefaultDimension
  /\ timers = {}
  /\ timer = NoTimer
  /\ timerDeps = <<>>
  /\ recomputeDeps = <<>>
  /\ phase = "effects"
  /\ event = Event("mount", 0, "")

Controls ==
  \/ handlePlay
  \/ handleReset
  \/ \E value \in InputTexts : handleInputChange(value)
  \/ \E value \in SpeedChoices : handleSpeedChange(value)
  \/ \E value \in DimensionChoices : handleEmbeddingDimensionChange(value)
  \/ \E t \in timers : timeoutCallback(t)
  \/ RunEffects

\* the component driven through its own controls
Next ==
  \/ Controls
  \/ \E stepIndex \in StepIndices : handleStepClick(stepIndex)

Spec == Init /\ [][Next]_vars

\* the handlers driven by a caller that may pass any index to handleStepClick
NextRaw ==
  \/ Controls
  \/ \E stepIndex \in RawIndices : handleStepClick(stepIndex)

SpecRaw == Init /\ [][NextRaw]_vars

(***************************************************************************)
(* Properties of the stage controller                                      *)
(***************************************************************************)

Generation == StepsLength - 1

\* C1: once a pause (play while playing), a reset or a seek has been handled,
\* no advance is left pending, and the timeout callback only ever runs from a
\* state that was playing: between a pause and the next play no timer expiry
\* changes currentStep.
C1_CancelledAdvanceNeverFires ==
  /\ (phase = "idle" /\ ~isPlaying) => timers = {}
  /\ event.op = "timeout" => event.wasPlaying

\* a pause handled at stage 2 while an advance was pending
C1_Witness ==
  /\ event.op = "play" /\ event.wasPlaying /\ event.pending
  /\ currentStep = 2 /\ phase = "idle" /\ ~isPlaying /\ timers = {}

\* C2: play handled at Generation while not playing puts the controller at
\* stage 0, playing, and once its effects have run exactly one advance is
\* scheduled, with the current interval.
C2_Replay ==
  (event.op = "play" /\ event.fromStep = Generation /\ ~event.wasPlaying) =>
    /\ currentStep = 0
    /\ isPlaying
    /\ phase = "idle" => timers = {[id |-> timer, delay |-> animationSpeed]}

C2_Witness ==
  /\ event.op = "play" /\ event.fromStep = Generation /\ ~event.wasPlaying
  /\ phase = "idle" /\ timers # {}

\* C3: a timer expiry in a playing state below Generation moves currentStep
\* up by exactly one and not past Generation; when that advance reaches
\* Generation, isPlaying is false as soon as the effects of the advance have
\* run, with no timeout left to wait for.
C3_Advance ==
  (event.op = "timeout" /\ event.wasPlaying /\ event.fromStep < Generation) =>
    /\ currentStep = event.fromStep + 1
    /\ currentStep <= Generation
    /\ (phase = "idle" /\ currentStep = Generation) => (~isPlaying /\ timers = {})

C3_Witness ==
  /\ event.op = "timeout" /\ event.fromStep = Generation - 1
  /\ currentStep = Generation /\ phase = "idle" /\ ~isPlaying

\* C4: whenever the controller has finished processing an event, tokens is
\* the tokenization of inputText, and embeddings, attentionWeights and output
\* are empty below stages 2, 3 and 4.
C4_StageGating ==
  phase = "idle" =>
    /\ tokens = tokenizeText(inputText)
    /\ currentStep < 2 => embeddings = <<>>
    /\ currentStep < 3 => attentionWeights = <<>>
    /\ currentStep < 4 => output = ""

\* a seek from Generation back to Tokenization, with a non-empty input
C4_Witness ==
  /\ event.op = "seek" /\ event.fromStep = Generation /\ currentStep = 1
  /\ phase = "idle" /\ tokens # <<>>
  /\ embeddings = <<>> /\ attentionWeights = <<>> /\ output = ""

\* C5: after handleInputChange(value), inputText is value, currentStep is 0
\* and isPlaying is false, and once its effects have run no advance is pending.
C5_InputRestarts ==
  event.op = "input" =>
    /\ inputText = event.text
    /\ currentStep = 0
    /\ ~isPlaying
    /\ phase = "idle" => timers = {}

\* an edit made while playing at a later stage with an advance pending
C5_Witness ==
  /\ event.op = "input" /\ event.wasPlaying /\ event.pending /\ event.fromStep > 0
  /\ inputText = "Hello" /\ phase = "idle"

\* C6: after handleReset, currentStep is 0, isPlaying is false and inputText
\* is the default string.
C6_Reset ==
  event.op = "reset" =>
    /\ currentStep = 0
    /\ ~isPlaying
    /\ inputText = "The quick brown fox"

\* a reset from Generation whose render still shows the tokens of the text
\* the user had entered
C6_Witness ==
  /\ event.op = "reset" /\ event.fromStep = Generation /\ phase = "effects"
  /\ tokens = <<"hello">> /\ inputText = "The quick brown fox"

\* C7: handleStepClick accepts every index of 0..4 in every idle state, and
\* after it currentStep is that index and isPlaying is false.
C7_Seek ==
  /\ phase = "idle" => \A stepIndex \in StepIndices : ENABLED handleStepClick(stepIndex)
  /\ event.op = "seek" => (currentStep = event.index /\ ~isPlaying)

\* a seek to the current stage while playing
C7_Witness ==
  /\ event.op = "seek" /\ event.wasPlaying /\ event.index = event.fromStep
  /\ currentStep = 2 /\ phase = "idle" /\ timers = {}

\* C8: handleSpeedChange and handleEmbeddingDimensionChange, with the effects
\* they trigger, leave currentStep and isPlaying as they were.
C8_ParameterUpdates ==
  event.op \in {"speed", "dimension"} =>
    /\ currentStep = event.fromStep
    /\ isPlaying = event.wasPlaying

\* a speed change while playing, the advance re-armed with the new interval
C8_Witness ==
  /\ event.op = "speed" /\ event.wasPlaying /\ event.index = MinSpeed
  /\ phase = "idle" /\ isPlaying
  /\ timers = {[id |-> timer, delay |-> MinSpeed]}

\* C9: currentStep is always one of the five stages, a seek below 0 ending
\* at stage 0 and a seek above 4 at stage 4.
C9_SeekClamped ==
  /\ currentStep \in StepIndices
  /\ (event.op = "seek" /\ event.index < 0) => currentStep = 0
  /\ (event.op = "seek" /\ event.index > Generation) => currentStep = Generation

(***************************************************************************)
(* Properties of the output generator                                      *)
(***************************************************************************)

Keywords == <<"hello", "question", "name", "weather", "time">>

matchingKeywords(text) ==
  {k \in 1..Len(Keywords) : includes(toLowerCase(text), Keywords[k])}

firstKeyword(text) ==
  CHOOSE k \in matchingKeywords(text) : \A j \in matchingKeywords(text) : k <= j

\* the replies keyword k can give, one per reading of the clock
cannedReplies(k) ==
  CASE k = 1 -> {HelloReply}
    [] k = 2 -> {QuestionReply}
    [] k = 3 -> {NameReply}
    [] k = 4 -> {WeatherReply}
    [] k = 5 -> {TimeReply(now) : now \in ClockTimes}

keywordCase ==
  /\ phase = "idle" /\ currentStep = Generation
  /\ tokens # <<>> /\ matchingKeywords(inputText) # {}

\* C10 as stated: with a keyword in the input and a non-empty token list the
\* output is the canned reply of the first matching keyword, whatever the
\* token count.
C10_KeywordReplyAnyCount ==
  keywordCase => output \in cannedReplies(firstKeyword(inputText))

\* C10: with a keyword in the input and a non-empty token list, the output
\* is the canned reply of the first matching keyword when there are 3 to 7
\* tokens; with fewer than 3 tokens it is the short-input message, and with
\* more than 7 the canned reply, possibly followed by the fixed suffix.
C10_KeywordReply ==
  keywordCase =>
    LET canned == cannedReplies(firstKeyword(inputText))
    IN  IF Len(tokens) < 3 THEN output = TooShort
        ELSE IF Len(tokens) > 7
        THEN output \in canned \cup {reply \o LotToThink : reply \in canned}
        ELSE output \in canned

\* three keywords in the input, the first in rule order wins
C10_Witness ==
  /\ phase = "idle" /\ currentStep = Generation
  /\ inputText = "hello question name" /\ output = HelloReply

(***************************************************************************)
(* Properties of the attention weight generator                            *)
(***************************************************************************)

RECURSIVE rowSum(_)
rowSum(row) == IF row = <<>> THEN 0 ELSE Head(row) + rowSum(Tail(row))

\* C11: every row of the attention matrix (entries in thousandths) sums to
\* 1.0 within 0.001, and every entry is at least 0.
C11_RowStochastic ==
  \A i \in 1..Len(attentionWeights) :
    /\ rowSum(attentionWeights[i]) \in 999..1001
    /\ \A j \in 1..Len(attentionWeights[i]) : attentionWeights[i][j] >= 0

(***************************************************************************)
(* Properties of the embedding generator                                   *)
(***************************************************************************)

Embeddings == 2

\* C13: at rest at stage Embeddings or later, embeddings has one record per
\* token, record k carrying token k; every vector has embeddingDimension
\* coordinates; records of equal tokens carry the same vector.
C13_Embeddings ==
  (phase = "idle" /\ currentStep >= Embeddings) =>
    /\ Len(embeddings) = Len(tokens)
    /\ \A k \in 1..Len(embeddings) :
         /\ embeddings[k].token = tokens[k]
         /\ Len(embeddings[k].vector) = embeddingDimension
    /\ \A k, l \in 1..Len(embeddings) :
         embeddings[k].token = embeddings[l].token =>
           embeddings[k].vector = embeddings[l].vector

\* a text with repeated tokens embedded after the dimension slider moved
C13_Witness ==
  /\ phase = "idle" /\ currentStep = Embeddings
  /\ event.op = "dimension" /\ embeddingDimension = MinDimension
  /\ Len(embeddings) = 9
  /\ tokens[2] = tokens[5] /\ embeddings[2].vector = embeddings[5].vector
  /\ embeddings[1].vector # embeddings[2].vector

(***************************************************************************)
(* The tokenizer on its own                                                *)
(***************************************************************************)

\* characters of the texts: letters of both cases, a space, two of the
\* listed punctuation characters and one that is not listed
Alphabet == {"a", "A", "b", " ", ".", "-", "_"}

MaxTextLen == 4

RECURSIVE TextsUpTo(_)
TextsUpTo(n) ==
  IF n = 0 THEN {""}
  ELSE {""} \cup {c \o s : c \in Alphabet, s \in TextsUpTo(n - 1)}

\* every character of the split pattern between two letters
DelimiterTexts ==
  {"a" \o d \o "B" :
     d \in {" ", "\t", "\n", "\r", ",", ".", "!", "?", ";", ":", "'", "\"", "(", ")", "-"}}

TokenizerTexts == TextsUpTo(MaxTextLen) \cup DelimiterTexts

\* a render whose inputText is any of the texts, before its effects
TokenizeInit ==
  /\ inputText \in TokenizerTexts
  /\ currentStep = 0
  /\ isPlaying = FALSE
  /\ tokens = <<>>
  /\ embeddings = <<>>
  /\ attentionWeights = <<>>
  /\ output = ""
  /\ animationSpeed = DefaultSpeed
  /\ embeddingDimension = DefaultDimension
  /\ timers = {}
  /\ timer = NoTimer
  /\ timerDeps = <<>>
  /\ recomputeDeps = <<>>
  /\ phase = "effects"
  /\ event = Event("mount", 0, "")

\* lines 155-156: setTokens(tokenizeText(inputText))
TokenizeStep ==
  /\ phase = "effects"
  /\ tokens' = tokenizeText(inputText)
  /\ phase' = "idle"
  /\ UNCHANGED << currentStep, isPlaying, inputText, embeddings, attentionWeights,
                  output, animationSpeed, embeddingDimension, hostTimers, event >>

SpecTokenize == TokenizeInit /\ [][TokenizeStep]_vars

\* the delimiters as the tokenizer contract lists them
ListedDelimiters ==
  {" ", "\t", "\n", "\r", ".", ",", "!", "?", ";", ":", "'", "\"", "(", ")", "-"}

\* positions of s where a maximal run of non-delimiters starts
runStarts(s) ==
  {i \in 1..Len(s) :
     /\ CharAt(s, i) \notin ListedDelimiters
     /\ i = 1 \/ CharAt(s, i - 1) \in ListedDelimiters}

\* the last position of the maximal run that starts at i
runEnd(s, i) ==
  CHOOSE e \in i..Len(s) :
    /\ \A k \in i..e : CharAt(s, k) \notin ListedDelimiters
    /\ e = Len(s) \/ CharAt(s, e + 1) \in ListedDelimiters

\* the maximal runs of s, by increasing start
maximalRuns(s) ==
  LET starts == runStarts(s)
  IN  [k \in 1..Cardinality(starts) |->
         LET i == CHOOSE i \in starts : Cardinality({j \in starts : j < i}) = k - 1
         IN  SubSeq(s, i, runEnd(s, i))]

\* C12: the tokens computed from a text are exactly the maximal runs of
\* non-delimiter characters of the lower-cased text, in source order with
\* repeats kept; every token is non-empty, has no upper-case letter and no
\* delimiter; a text with no non-delimiter character gives no token.
C12_Tokenize ==
  phase = "idle" =>
    /\ tokens = maximalRuns(toLowerCase(inputText))
    /\ \A k \in 1..Len(tokens) :
         /\ Len(tokens[k]) > 0
         /\ \A i \in 1..Len(tokens[k]) :
              /\ CharAt(tokens[k], i) \notin CharsOf(UpperCase)
              /\ CharAt(tokens[k], i) \notin ListedDelimiters
    /\ (\A i \in 1..Len(inputText) : CharAt(inputText, i) \in ListedDelimiters)
         => tokens = <<>>

\* a repeated token, in two cases, after a run of two delimiters
C12_Witness ==
  /\ phase = "idle" /\ inputText = "A .a" /\ tokens = <<"a", "a">>

(***************************************************************************)
(* Properties of the pipeline at its boundaries                            *)
(***************************************************************************)

allDelimiters(text) ==
  \A i \in 1..Len(text) : CharAt(text, i) \in ListedDelimiters

\* C14: at rest with an input that is empty or made of delimiters only, at
\* whatever stage, tokens, embeddings and attentionWeights are empty, and at
\* Generation the output is the start-typing message.
C14_EmptyInput ==
  (phase = "idle" /\ allDelimiters(inputText)) =>
    /\ tokens = <<>>
    /\ embeddings = <<>>
    /\ attentionWeights = <<>>
    /\ currentStep = Generation => output = "Start typing to generate output..."
    /\ currentStep < Generation => output = ""

\* a text of two delimiters, taken to Generation by a seek
C14_Witness ==
  /\ phase = "idle" /\ inputText = "?!" /\ currentStep = Generation
  /\ event.op = "seek" /\ output = StartTyping

\* C15: at rest at Generation with an input of one or two tokens, the output
\* is the short-input message, whichever rule the input matches.
C15_ShortInputOverride ==
  (phase = "idle" /\ currentStep = Generation /\ Len(tokens) \in {1, 2}) =>
    output = "Input is a bit short. Could you elaborate?"

\* two tokens and no keyword: the more-context rule had selected the reply
C15_Witness ==
  /\ phase = "idle" /\ currentStep = Generation
  /\ inputText = "a cat" /\ Len(tokens) = 2 /\ output = TooShort
  /\ selectReply(inputText, tokens, <<0>>, 1, "9:41:00 AM").text = MoreContext

(***************************************************************************)
(* Properties of rendering                                                 *)
(***************************************************************************)

\* the artifacts are those of (inputText, currentStep, embeddingDimension)
artifactsCurrent ==
  /\ tokens = tokenizeText(inputText)
  /\ embeddings = IF currentStep >= 2
                  THEN generateEmbeddings(tokenizeText(inputText), embeddingDimension)
                  ELSE <<>>
  /\ IF currentStep >= 3
     THEN Len(attentionWeights) = Len(tokenizeText(inputText))
     ELSE attentionWeights = <<>>
  /\ IF currentStep >= 4 THEN output # "" ELSE output = ""

\* C16: every render committed after an event, with or without effects
\* still to run, shows the artifacts of its own inputText, currentStep and
\* embeddingDimension.
C16_SnapshotOrdering ==
  event.op # "mount" => artifactsCurrent

(***************************************************************************)
(* Properties of the advance timer                                         *)
(***************************************************************************)

\* at rest the pending timeouts are exactly the one the state calls for
timerSettled ==
  timers = IF isPlaying /\ currentStep < Generation
           THEN {[id |-> timer, delay |-> animationSpeed]}
           ELSE {}

\* a run of the effects for a render that changed currentStep, isPlaying or
\* animationSpeed leaves none of the timeouts that were pending before it
cancelsPending ==
  (timerDeps # <<>> /\ timerDeps' # timerDeps) => timers \cap timers' = {}

\* C17: at most one timeout is pending in any state; at rest one is pending
\* iff isPlaying and currentStep < Generation, and its delay is the current
\* animationSpeed; the effects run after a change of currentStep, isPlaying
\* or animationSpeed cancel the timeout that was pending.
C17_TimerRescheduling ==
  /\ [](Cardinality(timers) <= 1 /\ (phase = "idle" => timerSettled))
  /\ [][cancelsPending]_vars

\* the interval changed while playing at stage 2 with a timeout pending: a
\* new timeout, with another handle and the new delay, replaces it
C17_Witness ==
  /\ event.op = "speed" /\ event.wasPlaying /\ event.pending
  /\ phase = "idle" /\ currentStep = 2 /\ isPlaying
  /\ animationSpeed = MinSpeed
  /\ Cardinality(timers) = 1 /\ timerSettled

(***************************************************************************)
(* Properties of the recomputation                                         *)
(***************************************************************************)

\* the outputs a recomputation at Generation can give for a text when the
\* render it runs for holds the embeddings `held`
outputsFor(text, held) ==
  LET tokenList == tokenizeText(text)
  IN  { generateSimpleOutput(text, tokenList, held, Generation, tape,
                             attentionRun(tokenList, tape, 1).pos, now) :
          tape \in RandomTapes, now \in ClockTimes }

\* C18: the output found at rest at Generation is one that inputText and
\* its tokens give with no embeddings held at all, and in a render at
\* Generation whose effects are still to run, the embeddings it holds from
\* the state before leave the set of possible outputs as it is without them.
C18_FreshPredecessorOutput ==
  /\ (phase = "idle" /\ currentStep = Generation) =>
       output \in outputsFor(inputText, <<>>)
  /\ (phase = "effects" /\ currentStep = Generation) =>
       outputsFor(inputText, embeddings) = outputsFor(inputText, <<>>)

\* Generation reached by a seek from Embeddings: the recomputation ran in a
\* render that held the embeddings of stage 2
C18_Witness ==
  /\ event.op = "seek" /\ event.fromStep = Embeddings
  /\ phase = "idle" /\ currentStep = Generation
  /\ inputText = DefaultText /\ output = "jumps over the lazy dog."

(***************************************************************************)
(* Properties of play and pause                                            *)
(***************************************************************************)

\* a step of handlePlay from a state other than (Generation, not playing):
\* a step from a state at rest is a handler or the timeout callback, and
\* the history names which
playToggles ==
  (/\ phase = "idle" /\ event'.op = "play"
   /\ ~(currentStep = Generation /\ ~isPlaying)) =>
    /\ isPlaying' = ~isPlaying
    /\ UNCHANGED <<currentStep, inputText, embeddingDimension, animationSpeed>>

\* the same once the effects of that render have run
playResumes ==
  (event.op = "play" /\ ~(event.fromStep = Generation /\ ~event.wasPlaying)) =>
    /\ currentStep = event.fromStep
    /\ isPlaying = ~event.wasPlaying

\* C19: outside the replay case handlePlay flips isPlaying and leaves
\* currentStep, inputText, embeddingDimension and animationSpeed as they
\* are, also after its effects: play after a pause at stage s resumes at s.
C19_PauseResume ==
  /\ [][playToggles]_vars
  /\ []playResumes

\* play handled while paused at stage 2: playing again at stage 2, the
\* advance armed
C19_Witness ==
  /\ event.op = "play" /\ ~event.wasPlaying /\ event.fromStep = 2
  /\ phase = "idle" /\ currentStep = 2 /\ isPlaying /\ timers # {}

(***************************************************************************)
(* The walkthrough left to run                                             *)
(***************************************************************************)

\* The component at rest after handlePlay below Generation, for any text,
\* interval and dimension: playing, the advance armed, the artifacts those
\* the recompute effect set for the stage.
RunInit ==
  /\ currentStep \in 0..(Generation - 1)
  /\ isPlaying = TRUE
  /\ inputText \in InputTexts \cup {DefaultText}
  /\ animationSpeed \in SpeedChoices
  /\ embeddingDimension \in DimensionChoices
  /\ tokens = tokenizeText(inputText)
  /\ embeddings = IF currentStep >= 2
                  THEN generateEmbeddings(tokens, embeddingDimension) ELSE <<>>
  /\ attentionWeights \in
       IF currentStep >= 3
       THEN {generateAttentionWeights(tokens, tape) : tape \in RandomTapes}
       ELSE {<<>>}
  /\ output = ""
  /\ timer \in 1..2
  /\ timers = {[id |-> timer, delay |-> animationSpeed]}
  /\ timerDeps = <<currentStep, TRUE, StepsLength, animationSpeed>>
  /\ recomputeDeps = <<inputText, currentStep, embeddingDimension>>
  /\ phase = "idle"
  /\ event = [ op |-> "play", index |-> 0, text |-> "", fromStep |-> currentStep,
               wasPlaying |-> FALSE, pending |-> FALSE ]

\* no control is used: only the pending timeout and the effects run
RunNext ==
  \/ \E t \in timers : timeoutCallback(t)
  \/ RunEffects

\* RunEffects can take a step exactly in these states
effectsPending == phase = "effects" /\ Cardinality(timers) <= MaxTimers

\* The host fires a pending timeout and React runs pending effects: weak
\* fairness of both actions, the one of RunEffects written out with its
\* enabling condition in place of ENABLED <<RunEffects>>_vars.
RunFairness ==
  /\ WF_vars(\E t \in timers : timeoutCallback(t))
  /\ ([]<>(~effectsPending) \/ []<><<RunEffects>>_vars)

SpecRun == RunInit /\ [][RunNext]_vars /\ RunFairness

\* every state of Spec at rest after a play that left it playing is one of
\* the initial states of SpecRun
RunInitCovers ==
  (phase = "idle" /\ isPlaying /\ event.op = "play") =>
    /\ currentStep \in 0..(Generation - 1)
    /\ tokens = tokenizeText(inputText)
    /\ embeddings = IF currentStep >= 2
                    THEN generateEmbeddings(tokens, embeddingDimension) ELSE <<>>
    /\ attentionWeights \in
         IF currentStep >= 3
         THEN {generateAttentionWeights(tokens, tape) : tape \in RandomTapes}
         ELSE {<<>>}
    /\ output = ""
    /\ timer \in 1..2
    /\ timers = {[id |-> timer, delay |-> animationSpeed]}
    /\ timerDeps = <<currentStep, TRUE, StepsLength, animationSpeed>>
    /\ recomputeDeps = <<inputText, currentStep, embeddingDimension>>

\* currentStep changes only by a timeout callback adding one, and never
\* once it is Generation
advancesByOne ==
  currentStep' # currentStep =>
    /\ currentStep' = currentStep + 1
    /\ event'.op = "timeout"
    /\ currentStep # Generation

\* C20: left alone while playing at a stage s below Generation, the
\* controller moves up one stage per timeout and comes to rest for good at
\* Generation, not playing, with no timeout pending: 4 - s advances.
C20_RunToCompletion ==
  /\ [][advancesByOne]_vars
  /\ <>[](/\ currentStep = Generation /\ ~isPlaying
           /\ timers = {} /\ phase = "idle")

\* a run from stage 0 at rest at Generation with its output computed
C20_Witness ==
  /\ event.op = "timeout" /\ event.fromStep = Generation - 1 /\ event.wasPlaying
  /\ phase = "idle" /\ currentStep = Generation /\ ~isPlaying /\ timers = {}
  /\ inputText = "one two three four" /\ output # ""

(***************************************************************************)
(* The controller at rest                                                  *)
(***************************************************************************)

\* C21: whatever controls were used (seeks by the step buttons, indices
\* 0..4) and whatever timeouts fired, once the last of them and its effects
\* are done currentStep is one of 0..4, and isPlaying only below Generation.
C21_ControllerInvariant ==
  phase = "idle" =>
    /\ currentStep \in 0..4
    /\ isPlaying => currentStep < Generation

\* playing at the stage before Generation, reached by a timer expiry
C21_Witness ==
  /\ event.op = "timeout" /\ event.fromStep = Generation - 2
  /\ phase = "idle" /\ currentStep = Generation - 1
  /\ isPlaying /\ timers # {}
====
